---- MODULE Spec2Model ----
(***************************************************************************)
(* Model of opentelemetry.instrumentation.rethinkdb: the call-chain        *)
(* recorder (MethodExecutionContext), the span lifecycle manager           *)
(* (RqlQueryTracer) and the forwarding proxies (RqlQueryProxy,             *)
(* DefaultCursorProxy) installed by wrap_table.                            *)
(*                                                                         *)
(* Representation.  The context path, a string such as "/table/filter",    *)
(* is held as the sequence of its slash-separated segments                 *)
(* <<"table", "filter">>; '' is <<>>.  A Python dict (history, span        *)
(* attributes) is a sequence of [key, value] entries in insertion order,   *)
(* assignment to an existing key replacing the value in place.  A query    *)
(* term of the wrapped driver is the sequence of the driver methods that   *)
(* built it.  An exception object is the pair <<type, message>>.  The      *)
(* ambient context of the tracing API is the stack current of the spans    *)
(* made current, the innermost last.                                       *)
(***************************************************************************)
EXTENDS Integers, Sequences, FiniteSets, TLC

VARIABLES contexts, proxies, cursors, spans, last, current, instrumentor,
          threads

vars == <<contexts, proxies, cursors, spans, last, current, instrumentor,
          threads>>

\* ------------------------------------------------------------------ bounds
\* The number of proxies and spans a behaviour creates.  It bounds the
\* contexts, the cursors and the length of every history as well: a context
\* is made with a table proxy or a cursor, a cursor by a run, and a history
\* entry by a builder call or a run.
MaxObjects == 4

\* The layers of wrappers wrap_table is let to put on r.table and
\* net.DefaultCursor.
MaxLayers == 2

\* The threads that call run() side by side.
MaxThreads == 2

Threads == 1..MaxThreads

\* ------------------------------------------------------------ environment
\* Builder methods of the intercepted surface exercised by the model.
Methods == {"filter", "upcase", "downcase"}

\* Positional and keyword arguments the calls may carry.
TableArgs == { [args |-> <<"marvel">>, kwargs |-> << <<"read_mode", "single">> >>] }

CallArgs == { [args |-> <<"name">>, kwargs |-> << <<"index", "id">> >>] }

RunArgs == { [args |-> <<"conn">>, kwargs |-> <<>>] }

CursorArgs == [args |-> <<"conn", "query">>, kwargs |-> <<>>]

\* An argument whose __str__ raises, and the calls that carry it.
Unprintable == "unprintable"

UnprintableArgs == { [args |-> <<Unprintable>>, kwargs |-> <<>>] }

StrError == <<"TypeError", "__str__ returned non-string">>

ReqlCursorEmpty == <<"ReqlCursorEmpty", "Cursor is empty.">>

Failures == { <<"ReqlOpFailedError", "Table test.marvel does not exist.">> }

NoError == <<>>

Returned(v) == [kind |-> "return", val |-> v]

Raised(e) == [kind |-> "raise", val |-> e]

\* What the driver's run() may do: a direct result, a streaming cursor, or a
\* failure.
RunOutcomes ==
    {Returned(<<"document">>), Returned(<<"cursor">>)} \cup {Raised(f) : f \in Failures}

\* What a fetch of the driver cursor may do while the cursor is live: yield a
\* row, find the stream exhausted, or fail.
FetchOutcomes ==
    {Returned(<<"row">>), Raised(ReqlCursorEmpty)} \cup {Raised(f) : f \in Failures}

\* ------------------------------------------------- MethodExecutionContext
RECURSIVE RenderArgs(_)
RenderArgs(args) ==
    IF args = <<>> THEN ""
    ELSE Head(args) \o "," \o RenderArgs(Tail(args))

RECURSIVE RenderKwargs(_)
RenderKwargs(kwargs) ==
    IF kwargs = <<>> THEN ""
    ELSE "(" \o Head(kwargs)[1] \o "=" \o Head(kwargs)[2] \o "),"
         \o RenderKwargs(Tail(kwargs))

GetArgumentsList(args, kwargs) ==
    "(" \o RenderArgs(args) \o RenderKwargs(kwargs) \o ")"

\* The format calls of _get_arguments_list return for every argument.
Renders(a) ==
    /\ \A i \in 1..Len(a.args) : a.args[i] # Unprintable
    /\ \A i \in 1..Len(a.kwargs) : a.kwargs[i][2] # Unprintable

Format02d(index) ==
    IF index < 10 THEN "0" \o ToString(index) ELSE ToString(index)

HistoryKey(name, index) == "#" \o Format02d(index) \o "." \o name

DictSet(dict, key, value) ==
    IF \E i \in 1..Len(dict) : dict[i].key = key
    THEN [i \in 1..Len(dict) |->
            IF dict[i].key = key THEN [key |-> key, value |-> value] ELSE dict[i]]
    ELSE Append(dict, [key |-> key, value |-> value])

AddContext(ctx, name, a) ==
    [ctx EXCEPT !.path = Append(ctx.path, name),
                !.history = DictSet(ctx.history,
                                    HistoryKey(name, Len(ctx.history)),
                                    GetArgumentsList(a.args, a.kwargs))]

\* add_context left by the exception of _get_arguments_list: the path is
\* already extended, the history entry is not assigned.
AddContextRaises(ctx, name) == [ctx EXCEPT !.path = Append(ctx.path, name)]

\* Mutant of ClearContext: the root call is recorded anew on top of the
\* history, which is not emptied.
ClearContextKeepsHistory(ctx) ==
    AddContext([ctx EXCEPT !.path = <<>>],
               ctx.name, [args |-> ctx.args, kwargs |-> ctx.kwargs])

ClearContext(ctx) ==
    AddContext([ctx EXCEPT !.path = <<>>, !.history = <<>>],
               ctx.name, [args |-> ctx.args, kwargs |-> ctx.kwargs])

NewContext(name, a) ==
    ClearContext([name |-> name, args |-> a.args, kwargs |-> a.kwargs,
                  path |-> <<>>, history |-> <<>>])

\* ------------------------------------------------------------------ spans
Unset == [status_code |-> "UNSET", description |-> ""]

StartSpan(name, kind, recording, proxy, cursor) ==
    [name |-> name, kind |-> kind, recording |-> recording,
     attributes |-> <<>>, status |-> Unset, ends |-> 0,
     log |-> <<"start">>, proxy |-> proxy, cursor |-> cursor]

IsRecording(span) == span.recording /\ span.ends = 0

SetAttribute(span, key, value) ==
    [span EXCEPT !.attributes = IF IsRecording(span)
                                THEN DictSet(span.attributes, key, value)
                                ELSE span.attributes,
                 !.log = Append(span.log, "set_attribute")]

SetStatus(span, code, description) ==
    [span EXCEPT !.status = IF IsRecording(span)
                            THEN [status_code |-> code, description |-> description]
                            ELSE span.status,
                 !.log = Append(span.log, "set_status")]

EndSpan(span) ==
    [span EXCEPT !.ends = span.ends + 1, !.log = Append(span.log, "end")]

\* ---------------------------------------------------------- RqlQueryTracer
RECURSIVE SetHistoryAttributes(_, _)
SetHistoryAttributes(span, history) ==
    IF history = <<>> THEN span
    ELSE SetHistoryAttributes(
             SetAttribute(span, "db.method." \o Head(history).key, Head(history).value),
             Tail(history))

\* Mutant of PopulateSpan: the context is cleared whether or not the span is
\* recording.
PopulateSpanClearsAlways(span, ctx) ==
    [span |-> IF IsRecording(span)
              THEN SetHistoryAttributes(SetAttribute(span, "db.system", "rethinkdb"),
                                        ctx.history)
              ELSE span,
     ctx |-> ClearContext(ctx)]

PopulateSpan(span, ctx) ==
    IF ~IsRecording(span)
    THEN [span |-> span, ctx |-> ctx]
    ELSE [span |-> SetHistoryAttributes(SetAttribute(span, "db.system", "rethinkdb"),
                                        ctx.history),
          ctx |-> ClearContext(ctx)]

\* Mutant of StatusOnFailure: the failure is re-raised without a status.
NoStatusOnFailure(span, ex) == span

\* The failure object the wrapped run raised is given an error status when
\* the span is recording (traced_execution, the except clause).
StatusOnFailure(span, ex) ==
    IF IsRecording(span) THEN SetStatus(span, "ERROR", ex[2]) ELSE span

\* Mutant of TracedExecution: the status is set once the span has been ended.
TracedExecutionStatusAfterEnd(sp, cx, c, recording, outcome, p, ambient) ==
    LET pop == PopulateSpan(StartSpan(cx[c].path, "sync", recording, p, 0), cx[c])
        span == IF outcome.kind = "raise"
                THEN SetStatus(EndSpan(pop.span), "ERROR", outcome.val[2])
                ELSE EndSpan(pop.span)
    IN [spans |-> Append(sp, span),
        contexts |-> [cx EXCEPT ![c] = pop.ctx],
        outcome |-> outcome,
        current |-> ambient]

\* Mutant of TracedExecution: the span is ended but stays the current one.
TracedExecutionLeavesSpanCurrent(sp, cx, c, recording, outcome, p, ambient) ==
    LET pop == PopulateSpan(StartSpan(cx[c].path, "sync", recording, p, 0), cx[c])
        span == IF outcome.kind = "raise"
                THEN StatusOnFailure(pop.span, outcome.val)
                ELSE pop.span
    IN [spans |-> Append(sp, EndSpan(span)),
        contexts |-> [cx EXCEPT ![c] = pop.ctx],
        outcome |-> outcome,
        current |-> Append(ambient, Len(sp) + 1)]

\* traced_execution on the context c of the proxy p: the span is started with
\* the context path as its name and made current, populated, the wrapped run
\* yields outcome, and the with-statement ends the span and restores the
\* ambient context on either exit.
TracedExecution(sp, cx, c, recording, outcome, p, ambient) ==
    LET name == cx[c].path
        entered == Append(ambient, Len(sp) + 1)
        pop == PopulateSpan(StartSpan(name, "sync", recording, p, 0), cx[c])
        span == IF outcome.kind = "raise"
                THEN StatusOnFailure(pop.span, outcome.val)
                ELSE pop.span
    IN [spans |-> Append(sp, EndSpan(span)),
        contexts |-> [cx EXCEPT ![c] = pop.ctx],
        outcome |-> IF outcome.kind = "raise" THEN Raised(outcome.val)
                    ELSE Returned(outcome.val),
        current |-> SubSeq(entered, 1, Len(entered) - 1)]

UsageError ==
    <<"Exception", "You need to finish the trace before starting a new one">>

\* Mutant of StartNewSpan: the check for a running span is missing.
StartNewSpanUnguarded(tracer, sp, cx, recording, k) ==
    [tracer |-> [tracer EXCEPT !.running_span = Len(sp) + 1],
     spans |-> Append(sp, StartSpan(cx[tracer.method_context].path,
                                    "deferred", recording, 0, k)),
     raised |-> NoError]

StartNewSpan(tracer, sp, cx, recording, k) ==
    IF tracer.running_span = 0
    THEN [tracer |-> [tracer EXCEPT !.running_span = Len(sp) + 1],
          spans |-> Append(sp, StartSpan(cx[tracer.method_context].path,
                                         "deferred", recording, 0, k)),
          raised |-> NoError]
    ELSE [tracer |-> tracer, spans |-> sp, raised |-> UsageError]

\* Mutant of StopRunningSpan: the reference is dropped, the span is not ended.
StopRunningSpanWithoutEnd(tracer, sp, cx) ==
    [tracer |-> [tracer EXCEPT !.running_span = 0], spans |-> sp, contexts |-> cx]

\* Mutant of StopRunningSpan: the span is ended before it is populated.
StopRunningSpanEndsFirst(tracer, sp, cx) ==
    IF tracer.running_span = 0
    THEN [tracer |-> tracer, spans |-> sp, contexts |-> cx]
    ELSE LET r == tracer.running_span
             c == tracer.method_context
             pop == PopulateSpan(EndSpan(sp[r]), cx[c])
         IN [tracer |-> [tracer EXCEPT !.running_span = 0],
             spans |-> [sp EXCEPT ![r] = pop.span],
             contexts |-> [cx EXCEPT ![c] = pop.ctx]]

\* Mutant of StopRunningSpan: the reference to the ended span is kept.
StopRunningSpanKeepsReference(tracer, sp, cx) ==
    IF tracer.running_span = 0
    THEN [tracer |-> tracer, spans |-> sp, contexts |-> cx]
    ELSE LET r == tracer.running_span
             c == tracer.method_context
             pop == PopulateSpan(sp[r], cx[c])
         IN [tracer |-> tracer,
             spans |-> [sp EXCEPT ![r] = EndSpan(pop.span)],
             contexts |-> [cx EXCEPT ![c] = pop.ctx]]

StopRunningSpan(tracer, sp, cx) ==
    IF tracer.running_span = 0
    THEN [tracer |-> tracer, spans |-> sp, contexts |-> cx]
    ELSE LET r == tracer.running_span
             c == tracer.method_context
             pop == PopulateSpan(sp[r], cx[c])
         IN [tracer |-> [tracer EXCEPT !.running_span = 0],
             spans |-> [sp EXCEPT ![r] = EndSpan(pop.span)],
             contexts |-> [cx EXCEPT ![c] = pop.ctx]]

\* ----------------------------------------------------------- RqlQueryProxy
\* The attribute of the wrapped object each intercepted method hands to
\* __execute_method__.
WrappedAttr(m) ==
    CASE m = "upcase" -> "filter"
      [] m = "downcase" -> "upcase"
      [] OTHER -> m

\* The driver's builder method attr applied to a query term.
RealMethod(term, attr, fails) ==
    IF fails = NoError THEN Returned(Append(term, attr)) ELSE Raised(fails)

Op(op, obj, method, actual, expected, span, result, before) ==
    [op |-> op, obj |-> obj, method |-> method, actual |-> actual,
     expected |-> expected, span |-> span, result |-> result, before |-> before]

\* A thread that is in no call, and the threads inside run().
Idle ==
    [pc |-> "idle", proxy |-> 0, args |-> [args |-> <<>>, kwargs |-> <<>>],
     key |-> "", span |-> 0]

InFlight == {t \in Threads : threads[t].pc # "idle"}

\* The path segments of cx that have no history entry behind them.
RECURSIVE Unrecorded(_)
Unrecorded(cx) ==
    IF cx = <<>> THEN 0
    ELSE Len(Head(cx).path) - Len(Head(cx).history) + Unrecorded(Tail(cx))

Created == Len(proxies) + Len(spans) + Unrecorded(contexts)

Init ==
    /\ contexts = <<>>
    /\ proxies = <<>>
    /\ cursors = <<>>
    /\ spans = <<>>
    /\ last = Op("init", 0, "", Returned(<<>>), Returned(<<>>), 0, 0, 0)
    /\ current = <<>>
    /\ instrumentor = [enabled |-> TRUE, layers |-> 1]
    /\ threads = [t \in Threads |-> Idle]

\* r.table(...) through wrap_table_.
Table(a) ==
    /\ Created < MaxObjects
    /\ instrumentor.layers = 1
    /\ IF Renders(a)
       THEN /\ contexts' = Append(contexts, NewContext("table", a))
            /\ proxies' = Append(proxies, [wrapped |-> <<"table">>,
                                           method_context |-> Len(contexts) + 1,
                                           calls |-> <<"table">>,
                                           parent |-> 0])
            /\ last' = Op("table", 0, "table", Returned(<<"table">>),
                          Returned(<<"table">>), 0, Len(proxies) + 1, 0)
       ELSE /\ last' = Op("table", 0, "table", Raised(StrError),
                          Returned(<<"table">>), 0, 0, 0)
            /\ UNCHANGED <<contexts, proxies>>
    /\ UNCHANGED <<cursors, spans, current, instrumentor, threads>>

\* Mutant of ExecuteMethod: every builder call is traced in a span of its own.
ExecuteMethodTraced(p, m, a, fails) ==
    LET c == proxies[p].method_context
        real == RealMethod(proxies[p].wrapped, WrappedAttr(m), fails)
        te == TracedExecution(spans, [contexts EXCEPT ![c] = AddContext(@, m, a)],
                              c, TRUE, real, p, current)
    IN /\ Created < MaxObjects
       /\ spans' = te.spans
       /\ contexts' = te.contexts
       /\ last' = Op("call", p, m, real, real, Len(spans) + 1, 0, 0)
       /\ UNCHANGED <<proxies, cursors, current, instrumentor, threads>>

\* proxy.m(...) for an intercepted builder method m, through
\* __execute_method__; the call is made while there is room for its result.
ExecuteMethod(p, m, a, fails) ==
    LET c == proxies[p].method_context
        real == RealMethod(proxies[p].wrapped, WrappedAttr(m), fails)
        expected == RealMethod(proxies[p].wrapped, m, fails)
    IN /\ Created < MaxObjects
       /\ IF real.kind = "raise"
          THEN /\ last' = Op("call", p, m, real, expected, 0, 0, 0)
               /\ UNCHANGED <<contexts, proxies>>
          ELSE IF ~Renders(a)
          THEN /\ contexts' = [contexts EXCEPT ![c] = AddContextRaises(@, WrappedAttr(m))]
               /\ last' = Op("call", p, m, Raised(StrError), expected, 0, 0, 0)
               /\ UNCHANGED proxies
          ELSE /\ contexts' = [contexts EXCEPT ![c] = AddContext(@, WrappedAttr(m), a)]
               /\ proxies' = Append(proxies, [wrapped |-> real.val,
                                              method_context |-> c,
                                              calls |-> Append(proxies[p].calls, m),
                                              parent |-> p])
               /\ last' = Op("call", p, m, real, expected, 0, Len(proxies) + 1, 0)
       /\ UNCHANGED <<cursors, spans, current, instrumentor, threads>>

\* net.DefaultCursor(...) through wrap_cursor_ and DefaultCursorProxy.__init__:
\* the cursor proxy over a live driver cursor, made under the run span origin;
\* enabled tells whether the instrumentor was enabled when it was made.
WrapCursor(c, origin) ==
    [tracer |-> [method_context |-> c, running_span |-> 0],
     error |-> NoError, origin |-> origin, enabled |-> instrumentor.enabled]

CursorContext == AddContext(NewContext("cursor", CursorArgs), "cursor", CursorArgs)

\* proxy.run(...): the call is recorded, then run through traced_execution.
\* A cursor the driver makes for the result goes through the one wrapper of
\* net.DefaultCursor; cursors made under a second layer of wrappers are not
\* followed.
Run(p, a, recording, outcome) ==
    LET c == proxies[p].method_context
        cx == [contexts EXCEPT ![c] = AddContext(@, "run", a)]
        te == TracedExecution(spans, cx, c, recording, outcome, p, current)
        streams == outcome.val = <<"cursor">>
    IN /\ Created < MaxObjects
       /\ streams => instrumentor.layers = 1
       /\ IF ~Renders(a)
          THEN /\ contexts' = [contexts EXCEPT ![c] = AddContextRaises(@, "run")]
               /\ last' = Op("run", p, "run", Raised(StrError), outcome, 0, 0, 0)
               /\ UNCHANGED <<spans, cursors, current>>
          ELSE /\ spans' = te.spans
               /\ contexts' = IF streams THEN Append(te.contexts, CursorContext)
                              ELSE te.contexts
               /\ cursors' = IF streams
                             THEN Append(cursors, WrapCursor(Len(contexts) + 1,
                                                             Len(spans) + 1))
                             ELSE cursors
               /\ last' = Op("run", p, "run", te.outcome, outcome,
                             Len(spans) + 1, IF streams THEN Len(cursors) + 1 ELSE 0, 0)
               /\ current' = te.current
       /\ UNCHANGED <<proxies, instrumentor, threads>>

\* ------------------------------------------------------- DefaultCursorProxy
\* cursor.__iter__()
CursorIter(k, recording) ==
    LET sn == StartNewSpan(cursors[k].tracer, spans, contexts, recording, k)
    IN /\ cursors[k].tracer.running_span = 0 => Created < MaxObjects
       /\ cursors' = [cursors EXCEPT ![k].tracer = sn.tracer]
       /\ spans' = sn.spans
       /\ last' = Op("iter", k, "__iter__",
                     IF sn.raised = NoError THEN Returned(<<"cursor">>)
                     ELSE Raised(sn.raised),
                     Returned(<<"cursor">>),
                     IF sn.raised = NoError THEN Len(spans) + 1 ELSE 0,
                     0, cursors[k].tracer.running_span)
       /\ UNCHANGED <<contexts, proxies, current, instrumentor, threads>>

\* The driver cursor's __next__: the outcome of the fetch; the exhaustion
\* signal or failure of a fetch is kept by the cursor and raised again by
\* every later call.
RealNext(cur, fetch) ==
    IF cur.error # NoError THEN [cur |-> cur, outcome |-> Raised(cur.error)]
    ELSE IF fetch.kind = "raise"
    THEN [cur |-> [cur EXCEPT !.error = fetch.val], outcome |-> fetch]
    ELSE [cur |-> cur, outcome |-> fetch]

\* Mutant of CursorNext: every fetch is traced as a query of its own.
CursorNextTracesEachFetch(k, fetch) ==
    LET rn == RealNext(cursors[k], fetch)
    IN /\ Created < MaxObjects
       /\ cursors' = [cursors EXCEPT ![k] = rn.cur]
       /\ spans' = Append(spans, EndSpan(StartSpan(
                        contexts[cursors[k].tracer.method_context].path,
                        "deferred", TRUE, 0, k)))
       /\ last' = Op("next", k, "__next__", rn.outcome, rn.outcome, 0, 0,
                     cursors[k].tracer.running_span)
       /\ UNCHANGED <<contexts, proxies, current, instrumentor, threads>>

\* cursor.__next__()
CursorNext(k, fetch) ==
    LET rn == RealNext(cursors[k], fetch)
        stop == StopRunningSpan(cursors[k].tracer, spans, contexts)
    IN IF rn.outcome.kind = "return"
       THEN /\ cursors' = [cursors EXCEPT ![k] = rn.cur]
            /\ last' = Op("next", k, "__next__", rn.outcome, rn.outcome, 0, 0,
                          cursors[k].tracer.running_span)
            /\ UNCHANGED <<contexts, proxies, spans, current, instrumentor, threads>>
       ELSE /\ cursors' = [cursors EXCEPT ![k] = [rn.cur EXCEPT !.tracer = stop.tracer]]
            /\ spans' = stop.spans
            /\ contexts' = stop.contexts
            /\ last' = Op("next", k, "__next__", Raised(rn.outcome.val), rn.outcome,
                          cursors[k].tracer.running_span, 0,
                          cursors[k].tracer.running_span)
            /\ UNCHANGED <<proxies, current, instrumentor, threads>>

Next ==
    \/ \E a \in TableArgs : Table(a)
    \/ \E p \in 1..Len(proxies), m \in Methods, a \in CallArgs,
          fails \in {NoError} \cup Failures : ExecuteMethod(p, m, a, fails)
    \/ \E p \in 1..Len(proxies), a \in RunArgs, recording \in BOOLEAN,
          outcome \in RunOutcomes : Run(p, a, recording, outcome)
    \/ \E k \in 1..Len(cursors), recording \in BOOLEAN : CursorIter(k, recording)
    \/ \E k \in 1..Len(cursors), fetch \in FetchOutcomes : CursorNext(k, fetch)

Spec == Init /\ [][Next]_vars

\* --------------------------------------------------- RethinkDBInstrumentor
\* _instrument(): wrap_table puts one more layer of wrappers on r.table and
\* net.DefaultCursor.  It is called when the instrumentor is not enabled.
Instrument ==
    /\ ~instrumentor.enabled
    /\ instrumentor.layers < MaxLayers
    /\ instrumentor' = [enabled |-> TRUE, layers |-> instrumentor.layers + 1]
    /\ last' = Op("instrument", 0, "_instrument", Returned(<<>>), Returned(<<>>), 0, 0, 0)
    /\ UNCHANGED <<contexts, proxies, cursors, spans, current, threads>>

\* _uninstrument(): the body is a docstring; no wrapper is removed.
Uninstrument ==
    /\ instrumentor.enabled
    /\ instrumentor' = [instrumentor EXCEPT !.enabled = FALSE]
    /\ last' = Op("uninstrument", 0, "_uninstrument", Returned(<<>>), Returned(<<>>),
                  0, 0, 0)
    /\ UNCHANGED <<contexts, proxies, cursors, spans, current, threads>>

\* The operations and the instrumentor's life cycle.
NextInstrumentor ==
    \/ Next
    \/ Instrument
    \/ Uninstrument

SpecInstrumentor == Init /\ [][NextInstrumentor]_vars

\* The operations with arguments whose rendering raises.
NextRender ==
    \/ \E a \in TableArgs \cup UnprintableArgs : Table(a)
    \/ \E p \in 1..Len(proxies), m \in Methods, a \in CallArgs \cup UnprintableArgs,
          fails \in {NoError} \cup Failures : ExecuteMethod(p, m, a, fails)
    \/ \E p \in 1..Len(proxies), a \in RunArgs \cup UnprintableArgs,
          recording \in BOOLEAN, outcome \in RunOutcomes : Run(p, a, recording, outcome)
    \/ \E k \in 1..Len(cursors), recording \in BOOLEAN : CursorIter(k, recording)
    \/ \E k \in 1..Len(cursors), fetch \in FetchOutcomes : CursorNext(k, fetch)

SpecRender == Init /\ [][NextRender]_vars

\* ---------------------------------------------------------------- threads
\* run() of lines 567-570 taken line by line by a thread t, so that the
\* lines of two threads interleave on the context the proxy holds.  No lock
\* is taken anywhere.  The spans are recording ones.
ThreadRun(t, p, a) ==
    /\ threads[t].pc = "idle"
    /\ Created + Cardinality(InFlight) < MaxObjects
    /\ threads' = [threads EXCEPT ![t] = [Idle EXCEPT !.pc = "path", !.proxy = p,
                                                       !.args = a]]
    /\ UNCHANGED <<contexts, proxies, cursors, spans, last, current, instrumentor>>

\* add_context, line 74: the path gets the segment.
ThreadAddPath(t) ==
    LET c == proxies[threads[t].proxy].method_context
    IN /\ threads[t].pc = "path"
       /\ contexts' = [contexts EXCEPT ![c] = AddContextRaises(@, "run")]
       /\ threads' = [threads EXCEPT ![t].pc = "key"]
       /\ UNCHANGED <<proxies, cursors, spans, last, current, instrumentor>>

\* add_context, line 75: the key is made from the length of the history.
ThreadAddKey(t) ==
    LET c == proxies[threads[t].proxy].method_context
    IN /\ threads[t].pc = "key"
       /\ threads' = [threads EXCEPT
                         ![t].pc = "entry",
                         ![t].key = HistoryKey("run", Len(contexts[c].history))]
       /\ UNCHANGED <<contexts, proxies, cursors, spans, last, current, instrumentor>>

\* add_context, line 76: the rendered arguments are stored under the key.
ThreadAddEntry(t) ==
    LET c == proxies[threads[t].proxy].method_context
        a == threads[t].args
    IN /\ threads[t].pc = "entry"
       /\ contexts' = [contexts EXCEPT ![c].history =
                           DictSet(@, threads[t].key,
                                   GetArgumentsList(a.args, a.kwargs))]
       /\ threads' = [threads EXCEPT ![t].pc = "start"]
       /\ UNCHANGED <<proxies, cursors, spans, last, current, instrumentor>>

\* traced_execution, lines 117-121: the span is started under the path read.
ThreadStartSpan(t) ==
    LET c == proxies[threads[t].proxy].method_context
    IN /\ threads[t].pc = "start"
       /\ spans' = Append(spans, StartSpan(contexts[c].path, "sync", TRUE,
                                           threads[t].proxy, 0))
       /\ threads' = [threads EXCEPT ![t].pc = "populate",
                                     ![t].span = Len(spans) + 1]
       /\ UNCHANGED <<contexts, proxies, cursors, last, current, instrumentor>>

\* _populate_span, lines 149-155: the attributes are set from the history.
ThreadPopulate(t) ==
    LET c == proxies[threads[t].proxy].method_context
        s == threads[t].span
    IN /\ threads[t].pc = "populate"
       /\ spans' = [spans EXCEPT ![s] =
                        SetHistoryAttributes(
                            SetAttribute(@, "db.system", "rethinkdb"),
                            contexts[c].history)]
       /\ threads' = [threads EXCEPT ![t].pc = "clear"]
       /\ UNCHANGED <<contexts, proxies, cursors, last, current, instrumentor>>

\* _populate_span, line 157: clear_context.
ThreadClear(t) ==
    LET c == proxies[threads[t].proxy].method_context
    IN /\ threads[t].pc = "clear"
       /\ contexts' = [contexts EXCEPT ![c] = ClearContext(@)]
       /\ threads' = [threads EXCEPT ![t].pc = "call"]
       /\ UNCHANGED <<proxies, cursors, spans, last, current, instrumentor>>

\* traced_execution, lines 123-129 and the exit of the with statement: the
\* wrapped run yields outcome, a failure is given a status, the span is ended.
ThreadFinish(t, outcome) ==
    LET s == threads[t].span
    IN /\ threads[t].pc = "call"
       /\ spans' = [spans EXCEPT ![s] =
                        EndSpan(IF outcome.kind = "raise"
                                THEN StatusOnFailure(@, outcome.val) ELSE @)]
       /\ last' = Op("run", threads[t].proxy, "run", outcome, outcome, s, 0, 0)
       /\ threads' = [threads EXCEPT ![t] = Idle]
       /\ UNCHANGED <<contexts, proxies, cursors, current, instrumentor>>

\* Tables, and threads that run them; the wrapped run returns a document or
\* raises.
NextThreads ==
    \/ \E a \in TableArgs : Table(a)
    \/ \E t \in Threads, p \in 1..Len(proxies), a \in RunArgs : ThreadRun(t, p, a)
    \/ \E t \in Threads : ThreadAddPath(t)
    \/ \E t \in Threads : ThreadAddKey(t)
    \/ \E t \in Threads : ThreadAddEntry(t)
    \/ \E t \in Threads : ThreadStartSpan(t)
    \/ \E t \in Threads : ThreadPopulate(t)
    \/ \E t \in Threads : ThreadClear(t)
    \/ \E t \in Threads, outcome \in {o \in RunOutcomes : o.val # <<"cursor">>} :
          ThreadFinish(t, outcome)

SpecThreads == Init /\ [][NextThreads]_vars

\* ------------------------------------------------------------ properties
Range(seq) == {seq[i] : i \in 1..Len(seq)}

AttributeKeys(span) == [i \in 1..Len(span.attributes) |-> span.attributes[i].key]

SyncSpans == {s \in 1..Len(spans) : spans[s].kind = "sync"}

DeferredSpans(k) ==
    {s \in 1..Len(spans) : spans[s].kind = "deferred" /\ spans[s].cursor = k}

OpenDeferredSpans(k) == {s \in DeferredSpans(k) : spans[s].ends = 0}

LogIndex(span, event) ==
    IF \E i \in 1..Len(span.log) : span.log[i] = event
    THEN CHOOSE i \in 1..Len(span.log) :
            span.log[i] = event /\ \A j \in 1..(i - 1) : span.log[j] # event
    ELSE 0

\* C1: every run() on a proxy reached by table().m1()...mk() emits a span
\* named /table/m1/.../mk/run, and a recording span carries db.system and then
\* one history attribute per call, keyed #00.table, #01.m1, ... in call order.
C1_SpanNamesTheCallChain ==
    \A s \in SyncSpans :
        LET chain == Append(proxies[spans[s].proxy].calls, "run")
        IN /\ spans[s].name = chain
           /\ spans[s].recording =>
                AttributeKeys(spans[s]) =
                    <<"db.system">> \o
                    [i \in 1..Len(chain) |-> "db.method." \o HistoryKey(chain[i], i - 1)]

\* C2: once a __next__ call on a cursor proxy has ended in the exhaustion
\* signal or in a failure, every deferred span started for that cursor has
\* been ended exactly once and none is open; no deferred span is ever ended
\* more than once, also when __next__ is called again after exhaustion.
C2_DeferredSpanEndedExactlyOnce ==
    /\ \A s \in 1..Len(spans) : spans[s].kind = "deferred" => spans[s].ends <= 1
    /\ (last.op = "next" /\ last.actual.kind = "raise") =>
          /\ cursors[last.obj].tracer.running_span = 0
          /\ \A s \in DeferredSpans(last.obj) : spans[s].ends = 1

\* C2 witness: __next__ is called again on a cursor whose iteration already
\* ended, and the span of that iteration is still ended once.
C2_Witness ==
    /\ last.op = "next"
    /\ last.actual.kind = "raise"
    /\ last.before = 0
    /\ \E s \in DeferredSpans(last.obj) : spans[s].ends = 1

\* C3: every operation on a proxy returns the value or raises the exception
\* the same operation on the unwrapped object produces.
C3_Transparent == last.actual = last.expected

\* C4: when the wrapped run raises, the span gets status ERROR with the
\* message of the failure exactly when it is recording, set_status comes
\* before end, and the same failure reaches the caller; when the wrapped run
\* returns, no status is set and the result is returned unchanged.
C4_RunFailureSetsErrorStatus ==
    (last.op = "run" /\ last.span # 0) =>
        LET span == spans[last.span]
        IN /\ last.actual = last.expected
           /\ span.ends = 1
           /\ last.expected.kind = "raise" =>
                /\ span.recording <=>
                      span.status = [status_code |-> "ERROR",
                                     description |-> last.expected.val[2]]
                /\ span.recording <=> LogIndex(span, "set_status") # 0
                /\ LogIndex(span, "set_status") < LogIndex(span, "end")
           /\ last.expected.kind = "return" =>
                /\ span.status = Unset
                /\ LogIndex(span, "set_status") = 0

\* C4 witness: a run that raised under a recording span.
C4_Witness ==
    /\ last.op = "run"
    /\ last.actual.kind = "raise"
    /\ spans[last.span].recording
    /\ spans[last.span].status.status_code = "ERROR"

\* C5: an intercepted builder method invokes the driver method of its own
\* name, records that name in the context, and returns the result in a proxy
\* carrying the same context.
C5_BuilderForwardsItsOwnName ==
    (last.op = "call" /\ last.actual.kind = "return") =>
        LET p == last.obj
            r == last.result
            ctx == contexts[proxies[r].method_context]
        IN /\ proxies[r].wrapped = Append(proxies[p].wrapped, last.method)
           /\ ctx.path[Len(ctx.path)] = last.method
           /\ ctx.history[Len(ctx.history)].key =
                 HistoryKey(last.method, Len(ctx.history) - 1)
           /\ proxies[r].method_context = proxies[p].method_context

\* C6: a query whose run() returned a cursor that was then iterated to
\* exhaustion has had exactly one span started for it, from the run call
\* through the exhaustion signal.
C6_OneSpanPerStreamedQuery ==
    (/\ last.op = "next"
     /\ last.actual = Raised(ReqlCursorEmpty)
     /\ last.before # 0) =>
        Cardinality({cursors[last.obj].origin} \cup DeferredSpans(last.obj)) = 1

\* C7: after a run() call has returned or raised, the context of the proxy
\* holds the root entry alone and its path is the root alone.
C7_ContextResetAfterRun ==
    last.op = "run" =>
        LET ctx == contexts[proxies[last.obj].method_context]
        IN /\ ctx.path = <<ctx.name>>
           /\ Len(ctx.history) = 1
           /\ ctx.history[1].key = HistoryKey(ctx.name, 0)

\* C8: the span emitted by running a chain names only calls recorded for that
\* chain (and run), none recorded for another chain built from the same table
\* proxy.
C8_SpanNamesOwnChainOnly ==
    \A s \in SyncSpans :
        Range(spans[s].name) \subseteq
            Range(proxies[spans[s].proxy].wrapped) \cup {"run"}

\* C9: at most one deferred span is open per cursor context, the reference
\* the tracer holds is to an open span, and __iter__ on a cursor whose span
\* is open raises the usage error, starts no span and leaves the open span
\* as it is.
C9_AtMostOneOpenDeferredSpan ==
    /\ [](\A k \in 1..Len(cursors) :
            /\ Cardinality(OpenDeferredSpans(k)) <= 1
            /\ cursors[k].tracer.running_span # 0 =>
                  OpenDeferredSpans(k) = {cursors[k].tracer.running_span})
    /\ [][\A k \in 1..Len(cursors) :
            (/\ last'.op = "iter"
             /\ last'.obj = k
             /\ cursors[k].tracer.running_span # 0) =>
                /\ last'.actual = Raised(UsageError)
                /\ last'.span = 0
                /\ spans' = spans
                /\ cursors' = cursors]_vars

\* C9 witness: __iter__ was called on a cursor whose deferred span is open.
C9_Witness ==
    /\ last.op = "iter"
    /\ last.before # 0
    /\ spans[last.before].ends = 0

\* C10: when the driver cursor's __next__ fails with anything but the
\* exhaustion signal while a recording deferred span is open, that span gets
\* status ERROR before it is ended and the failure is re-raised.
C10_CursorFailureRecordsError ==
    (/\ last.op = "next"
     /\ last.actual.kind = "raise"
     /\ last.actual.val # ReqlCursorEmpty
     /\ last.span # 0
     /\ spans[last.span].recording) =>
        /\ spans[last.span].status.status_code = "ERROR"
        /\ LogIndex(spans[last.span], "set_status") # 0
        /\ LogIndex(spans[last.span], "set_status") < LogIndex(spans[last.span], "end")
        /\ last.actual = last.expected

\* C11: every __next__ of a cursor proxy either returns the row the wrapped
\* cursor returned and leaves the deferred span open and referenced, or
\* raises the very exhaustion signal or failure the wrapped cursor raised,
\* with the deferred span that was open ended and no longer referenced.
C11_NextPropagatesAndStopsSpan ==
    last.op = "next" =>
        LET tracer == cursors[last.obj].tracer
        IN /\ last.actual = last.expected
           /\ last.actual.kind = "return" =>
                  /\ tracer.running_span = last.before
                  /\ last.before # 0 => spans[last.before].ends = 0
           /\ last.actual.kind = "raise" =>
                  /\ tracer.running_span = 0
                  /\ last.before # 0 => spans[last.before].ends = 1

\* A failure of the wrapped cursor has reached the caller and the deferred
\* span that was open is ended.
C11_Witness ==
    /\ last.op = "next"
    /\ last.actual = Raised(CHOOSE f \in Failures : TRUE)
    /\ last.before # 0
    /\ spans[last.before].ends = 1
    /\ cursors[last.obj].tracer.running_span = 0

\* C12: every run() invokes the wrapped run, and what the caller receives is
\* the result or the failure of the wrapped run, whatever happens while the
\* call is recorded and traced.
C12_TracingNeverMasksRun ==
    last.op = "run" =>
        /\ last.span # 0
        /\ last.actual = last.expected

\* C13: nothing is applied to a span after its end: in the calls made on any
\* span, synchronous or deferred, end comes once and last; and the span a
\* cursor's tracer refers to as running has not been ended.
C13_EndedSpanNeverTouched ==
    /\ \A s \in 1..Len(spans) :
          \A i \in 1..Len(spans[s].log) :
              spans[s].log[i] = "end" => i = Len(spans[s].log)
    /\ \A k \in 1..Len(cursors) :
          cursors[k].tracer.running_span # 0 =>
              spans[cursors[k].tracer.running_span].ends = 0

\* A recording deferred span was populated and ended, its cursor was
\* iterated anew under another span, and the span of a run was ended.
C13_Witness ==
    /\ \E k \in 1..Len(cursors) :
          /\ cursors[k].tracer.running_span # 0
          /\ \E s \in DeferredSpans(k) :
                /\ spans[s].ends = 1
                /\ spans[s].recording
                /\ Len(spans[s].log) > 2
    /\ \E s \in SyncSpans : spans[s].ends = 1

\* C14: clear_context on any context, however long its history, leaves one
\* history entry, the root call under the key #00.<root> with the arguments
\* the context was made with, and the path /<root>; a second clear_context
\* changes nothing.  The context a recording run span was populated from is
\* left in that state.
C14_ClearContextLeavesRoot ==
    /\ \A c \in 1..Len(contexts) :
          LET ctx == contexts[c]
              cleared == ClearContext(ctx)
          IN /\ cleared.path = <<ctx.name>>
             /\ cleared.history =
                    << [key |-> "#00." \o ctx.name,
                        value |-> GetArgumentsList(ctx.args, ctx.kwargs)] >>
             /\ cleared.name = ctx.name
             /\ cleared.args = ctx.args
             /\ cleared.kwargs = ctx.kwargs
             /\ ClearContext(cleared) = cleared
    /\ (last.op = "run" /\ last.span # 0 /\ spans[last.span].recording) =>
          LET ctx == contexts[proxies[last.obj].method_context]
          IN /\ ctx.path = <<"table">>
             /\ Len(ctx.history) = 1
             /\ ctx.history[1].key = "#00.table"

\* A context with three calls in its history was cleared by a run whose span
\* recorded them, while another context still holds a longer history.
C14_Witness ==
    /\ last.op = "run"
    /\ last.span # 0
    /\ spans[last.span].recording
    /\ Len(spans[last.span].attributes) = 4
    /\ contexts[proxies[last.obj].method_context].path = <<"table">>
    /\ \E c \in 1..Len(contexts) : Len(contexts[c].history) > 1

\* C15: a builder call on a proxy starts no span and ends none: the step of
\* every intercepted builder method leaves the spans, their state included,
\* and the ambient current span as they were.
C15_BuilderCallsLeaveSpans ==
    [][last'.op = "call" => (spans' = spans /\ current' = current)]_vars

\* A builder call has returned a new proxy while a deferred span is open and
\* a run span has been ended.
C15_Witness ==
    /\ last.op = "call"
    /\ last.actual.kind = "return"
    /\ last.result # 0
    /\ \E s \in 1..Len(spans) : spans[s].kind = "deferred" /\ spans[s].ends = 0
    /\ \E s \in SyncSpans : spans[s].ends = 1

\* C16: the span of run() lives for the call: once traced_execution has
\* returned or raised, its span has been ended exactly once, it is never
\* ended again, and the ambient current span is the one of before the call.
C16_RunSpanScopedToCall ==
    /\ [](\A s \in SyncSpans : spans[s].ends = 1)
    /\ [][last'.op = "run" =>
            /\ current' = current
            /\ last'.span # 0 =>
                   /\ Len(spans') = Len(spans) + 1
                   /\ last'.span = Len(spans')
                   /\ spans'[last'.span].kind = "sync"
                   /\ spans'[last'.span].ends = 1]_vars

\* A run has raised and an earlier run has returned: both spans are ended
\* once and no span is current.
C16_Witness ==
    /\ last.op = "run"
    /\ last.span # 0
    /\ last.actual.kind = "raise"
    /\ spans[last.span].ends = 1
    /\ current = <<>>
    /\ \E s \in SyncSpans :
          s # last.span /\ spans[s].ends = 1 /\ spans[s].status = Unset

\* C17: a fetch is a continuation: no __next__ step starts a span or renames
\* one, a __next__ that returns a row leaves the tracer on the span it had,
\* and an __iter__ that returns has started exactly one deferred span, the
\* one the tracer then refers to; so the rows of one iteration lie under the
\* one span started at its __iter__.
C17_FetchesAreContinuations ==
    [][/\ last'.op = "next" =>
            /\ Len(spans') = Len(spans)
            /\ \A s \in 1..Len(spans) : spans'[s].name = spans[s].name
            /\ last'.actual.kind = "return" =>
                   /\ spans' = spans
                   /\ cursors'[last'.obj].tracer = cursors[last'.obj].tracer
       /\ (last'.op = "iter" /\ last'.actual.kind = "return") =>
            /\ Len(spans') = Len(spans) + 1
            /\ SubSeq(spans', 1, Len(spans)) = spans
            /\ cursors[last'.obj].tracer.running_span = 0
            /\ cursors'[last'.obj].tracer.running_span = Len(spans')
            /\ spans'[Len(spans')].kind = "deferred"
            /\ spans'[Len(spans')].cursor = last'.obj]_vars

\* A row has been fetched in an iteration whose deferred span is open and is
\* the only deferred span of the cursor.
C17_Witness ==
    /\ last.op = "next"
    /\ last.actual.kind = "return"
    /\ last.before # 0
    /\ DeferredSpans(last.obj) = {last.before}
    /\ spans[last.before].ends = 0
    /\ cursors[last.obj].tracer.running_span = last.before

\* The attributes _populate_span is to set for a history.
HistoryAttributes(history) ==
    <<[key |-> "db.system", value |-> "rethinkdb"]>> \o
    [i \in 1..Len(history) |->
        [key |-> "db.method." \o history[i].key, value |-> history[i].value]]

RootOnly(ctx) ==
    /\ ctx.path = <<ctx.name>>
    /\ Len(ctx.history) = 1
    /\ ctx.history[1].key = "#00." \o ctx.name

\* C18: _populate_span on a span that is not recording makes no
\* set_attribute call and leaves the path and the history of the context as
\* they were; on a recording span it sets db.system to rethinkdb and one
\* db.method.<key> attribute for each history entry, with the entry's value,
\* and leaves the context cleared.  Stated for the deferred span that
\* _stop_running_span populates and for the span that run() populates once
\* it has recorded the run call.
C18_PopulateSpan ==
    [][/\ (last'.op = "next" /\ last'.span # 0) =>
            LET c == cursors[last'.obj].tracer.method_context
                after == spans'[last'.span]
            IN IF spans[last'.span].recording
               THEN /\ after.attributes = HistoryAttributes(contexts[c].history)
                    /\ RootOnly(contexts'[c])
               ELSE /\ after.attributes = <<>>
                    /\ \A i \in 1..Len(after.log) : after.log[i] # "set_attribute"
                    /\ contexts'[c] = contexts[c]
       /\ (last'.op = "run" /\ last'.span # 0) =>
            LET c == proxies[last'.obj].method_context
                after == spans'[last'.span]
                n == Len(contexts[c].history)
            IN IF after.recording
               THEN /\ SubSeq(after.attributes, 1, n + 1) =
                           HistoryAttributes(contexts[c].history)
                    /\ Len(after.attributes) = n + 2
                    /\ after.attributes[n + 2].key =
                           "db.method." \o HistoryKey("run", n)
                    /\ RootOnly(contexts'[c])
               ELSE /\ after.attributes = <<>>
                    /\ \A i \in 1..Len(after.log) : after.log[i] # "set_attribute"
                    /\ contexts'[c].path = Append(contexts[c].path, "run")
                    /\ SubSeq(contexts'[c].history, 1, n) = contexts[c].history
                    /\ Len(contexts'[c].history) = n + 1]_vars

\* Both cases have happened: a run whose span does not record has left the
\* run call in the context, and a recording deferred span has been populated
\* from the history of its cursor.
C18_Witness ==
    /\ \E s \in SyncSpans :
          /\ ~spans[s].recording
          /\ Len(contexts[proxies[spans[s].proxy].method_context].history) > 1
    /\ last.op = "next"
    /\ last.span # 0
    /\ spans[last.span].recording
    /\ Len(spans[last.span].attributes) = 3

\* C19: _stop_running_span, called by a __next__ that raises, changes no
\* span and no context when the tracer has no running span; when it has one,
\* that span gets its attributes, then its end, as the last call made on it,
\* no other span is touched and the tracer's reference is cleared, so that
\* the __iter__ that follows on the same cursor proxy returns and starts a
\* new deferred span.
C19_StopRunningSpan ==
    [][/\ (last'.op = "next" /\ last'.actual.kind = "raise") =>
            /\ cursors'[last'.obj].tracer.running_span = 0
            /\ IF last'.before = 0
               THEN spans' = spans /\ contexts' = contexts
               ELSE LET after == spans'[last'.before]
                        n == Len(after.log)
                    IN /\ cursors[last'.obj].tracer.running_span = last'.before
                       /\ after.ends = 1
                       /\ after.log[n] = "end"
                       /\ \A i \in 2..(n - 1) : after.log[i] = "set_attribute"
                       /\ after.recording => n > 2
                       /\ \A s \in 1..Len(spans) :
                              s # last'.before => spans'[s] = spans[s]
       /\ (last'.op = "iter" /\ last'.before = 0) =>
            /\ last'.actual.kind = "return"
            /\ last'.span = Len(spans) + 1
            /\ cursors'[last'.obj].tracer.running_span = last'.span
            /\ spans'[last'.span].ends = 0]_vars

\* A cursor proxy whose deferred span was populated and ended has been
\* iterated again, under a new deferred span.
C19_Witness ==
    /\ last.op = "iter"
    /\ last.actual.kind = "return"
    /\ spans[last.span].ends = 0
    /\ \E s \in DeferredSpans(last.obj) :
          /\ s # last.span
          /\ spans[s].ends = 1
          /\ Len(spans[s].attributes) > 0

TableRunAttributes ==
    HistoryAttributes(
        AddContext(NewContext("table", CHOOSE a \in TableArgs : TRUE), "run",
                   CHOOSE a \in RunArgs : TRUE).history)

\* C21: whatever the interleaving of the threads that call run() on a table
\* proxy, the span of each call, once ended, is named /table/run, with one
\* run segment, and carries the history of its own call and no more: the
\* root entry and one run entry.
C21_ThreadsKeepOwnRun ==
    \A s \in 1..Len(spans) :
        spans[s].ends = 1 =>
            /\ spans[s].name = <<"table", "run">>
            /\ spans[s].attributes = TableRunAttributes

\* C22: in every state every context has as many history entries as its path
\* has segments and at least the root entry, and the i-th history key is
\* #NN.<name> with NN the index i counted from 0 and <name> the i-th path
\* segment; so every add_context has added one entry of its own and has
\* replaced none.
C22_PathMatchesHistory ==
    \A c \in 1..Len(contexts) :
        LET ctx == contexts[c]
        IN /\ Len(ctx.history) >= 1
           /\ Len(ctx.path) = Len(ctx.history)
           /\ ctx.path[1] = ctx.name
           /\ \A i \in 1..Len(ctx.history) :
                  /\ i <= Len(ctx.path)
                  /\ ctx.history[i].key = HistoryKey(ctx.path[i], i - 1)
           /\ \A i, j \in 1..Len(ctx.history) :
                  ctx.history[i].key = ctx.history[j].key => i = j

====
